---------------------------- MODULE Spec2Model ----------------------------
(***************************************************************************)
(* aircraft-diff: compares two trees of INI-style .cfg files and reports,  *)
(* per file name common to both trees, the keys whose values differ.       *)
(*                                                                         *)
(* A string is a sequence of one-character strings, so that find, trim,    *)
(* split_at and slicing are computed the way the program computes them.    *)
(* A &str allocated in the bump arena is a record [addr, name]: addr is    *)
(* the allocation (its position in the arena), name is its content.        *)
(***************************************************************************)
EXTENDS Naturals, Sequences, FiniteSets

VARIABLES
    config,     \* read_to_map: the lines of the reader consumed so far
    section,    \* read_to_map: the current section (an arena &str)
    map,        \* read_to_map: the HashMap<Key, String> being built
    store,      \* the bump arena: the number of strings allocated in it
    leftMap,    \* diff: the map read from the left file
    rightMap,   \* diff: the map read from the right file
    left,       \* diff: the entries left.into_iter() has yet to yield
    right,      \* diff: the right map, less the entries removed from it
    differences, \* diff: the differences yielded so far, in order
    fs,         \* main: the two trees and the ignore file, as the run finds them
    pc,         \* main: the statement main is at
    ignored,    \* main: Ignored.set
    tree,       \* main: the pairs the iterator over the common tree has yet to yield
    file,       \* main: the file name of the pair last taken from the iterator
    printed,    \* main: what was printed, one entry per "# file (count)" block
    status      \* main: "running", then "ok" (Ok(())) or "err" (an io::Error returned)

readerVars == <<config, section, map, store>>

diffVars == <<leftMap, rightMap, left, right, differences>>

mainVars == <<fs, pc, ignored, tree, file, printed, status>>

vars == <<readerVars, diffVars, mainVars>>

---------------------------------------------------------------------------
(* Bounds of the model *)

\* lines of a file read by read_to_map
MaxLines == 5
\* lines of a file after which one line of any content may still follow
MaxPrefix == 1
\* length of the lines of any content
MaxLineLen == 3
\* lines of each of the two files diff reads
MaxFileLines == 3

---------------------------------------------------------------------------
(* Characters and strings *)

Alphabet == {"[", "]", "=", ";", " ", "a", "b"}

Whitespace == {" "}

Root == <<"r", "o", "o", "t">>

Min(S) == CHOOSE x \in S : \A y \in S : x <= y

Max(S) == CHOOSE x \in S : \A y \in S : y <= x

\* str::find(c): the position of the first c in s, 0 for None
find(s, c) ==
    LET at == {i \in 1..Len(s) : s[i] = c}
    IN  IF at = {} THEN 0 ELSE Min(at)

\* str::trim
trim(s) ==
    LET solid == {i \in 1..Len(s) : s[i] \notin Whitespace}
    IN  IF solid = {} THEN <<>> ELSE SubSeq(s, Min(solid), Max(solid))

is_whitespace(s) == \A i \in 1..Len(s) : s[i] \in Whitespace

starts_with(s, c) == Len(s) > 0 /\ s[1] = c

ends_with(s, c) == Len(s) > 0 /\ s[Len(s)] = c

\* str::split_at(idx) at the position find returned: the text before the
\* character found, and the text from that character on
split_at(s, idx) == <<SubSeq(s, 1, idx - 1), SubSeq(s, idx, Len(s))>>

---------------------------------------------------------------------------
(* Keys and the map *)

\* Bump::alloc_str: a fresh allocation holding a copy of the text
alloc_str(st, text) == [addr |-> st, name |-> text]

\* keys compared by the address of the section, not by its name
KeyEqByAddress(k1, k2) ==
    /\ k1.section.addr = k2.section.addr
    /\ k1.property = k2.property

\* #[derive(PartialEq, Eq, Hash)] on Key { section: &str, property: String }:
\* a &str compares by content, never by address
KeyEq(k1, k2) ==
    /\ k1.section.name = k2.section.name
    /\ k1.property = k2.property

\* HashMap::insert: an equal key keeps the stored key and takes the new value
Insert(m, k, v) ==
    IF \E e \in m : KeyEq(e.key, k)
    THEN {IF KeyEq(e.key, k) THEN [e EXCEPT !.value = v] ELSE e : e \in m}
    ELSE m \cup {[key |-> k, value |-> v]}

---------------------------------------------------------------------------
(* read_to_map *)

\* the lines the filter of the line iterator lets through
Kept(raw) == ~(raw = <<>>) /\ ~is_whitespace(raw)

\* the line with its comment cut off, trimmed
Stripped(raw) ==
    LET idx == find(raw, ";")
    IN  IF idx # 0 THEN trim(split_at(raw, idx)[1]) ELSE trim(raw)

IsHeader(line) == starts_with(line, "[") /\ ends_with(line, "]")

HeaderName(line) == SubSeq(line, 2, Len(line) - 1)

\* the key and the value of a line holding '='
Property(line) == trim(split_at(line, find(line, "="))[1])

Value(line) == trim(split_at(line, find(line, "="))[2])

\* the '=' looked for before the brackets
ReadLinePairFirst(st, raw) ==
    IF ~Kept(raw) THEN st
    ELSE LET line == Stripped(raw)
         IN  IF line = <<>> THEN st
             ELSE IF find(line, "=") # 0
                  THEN [st EXCEPT !.map =
                           Insert(st.map,
                                  [section |-> st.section, property |-> Property(line)],
                                  Value(line))]
             ELSE IF IsHeader(line)
                  THEN [st EXCEPT !.section = alloc_str(st.store, HeaderName(line)),
                                  !.store = st.store + 1]
             ELSE st

\* a header recognised by its opening bracket alone
ReadLineOpenBracket(st, raw) ==
    IF ~Kept(raw) THEN st
    ELSE LET line == Stripped(raw)
         IN  IF line = <<>> THEN st
             ELSE IF starts_with(line, "[")
                  THEN [st EXCEPT !.section = alloc_str(st.store, HeaderName(line)),
                                  !.store = st.store + 1]
             ELSE IF find(line, "=") # 0
                  THEN [st EXCEPT !.map =
                           Insert(st.map,
                                  [section |-> st.section, property |-> Property(line)],
                                  Value(line))]
             ELSE st

\* one iteration of the loop over the lines, on the reader's state
ReadLine(st, raw) ==
    IF ~Kept(raw) THEN st
    ELSE LET line == Stripped(raw)
         IN  IF line = <<>> THEN st
             ELSE IF IsHeader(line)
                  THEN [st EXCEPT !.section = alloc_str(st.store, HeaderName(line)),
                                  !.store = st.store + 1]
             ELSE IF find(line, "=") # 0
                  THEN [st EXCEPT !.map =
                           Insert(st.map,
                                  [section |-> st.section, property |-> Property(line)],
                                  Value(line))]
             ELSE st

\* let mut section = store.alloc_str("root")
InitialSectionUnnamed(st) == alloc_str(st, <<>>)

InitialSection(st) == alloc_str(st, Root)

\* the reader's state before the first line
ReaderInit(st) ==
    [section |-> InitialSection(st), map |-> {}, store |-> st + 1]

RECURSIVE ReadAll(_, _)
ReadAll(st, lines) ==
    IF lines = <<>> THEN st
    ELSE ReadAll(ReadLine(st, Head(lines)), Tail(lines))

\* read_to_map(config, store): the map, and the arena after the read
read_to_map(lines, st) == ReadAll(ReaderInit(st), lines)

---------------------------------------------------------------------------
(* The inputs of the reader *)

\* every string of at most MaxLineLen characters
AnyLines == UNION {[1..n -> Alphabet] : n \in 0..MaxLineLen}

\* the lines of the files: headers, pairs, and lines without effect
DocLines == {
    <<"[", "a", "]">>,
    <<"[", "b", "]">>,
    <<"a", "=", "a">>,
    <<"a", " ", "=", " ", "b", " ", ";", "a">>,
    <<" ", ";", "a", "=", "b">>,
    <<"a", " ", "b">>
}

\* longer lines of interest
LongLines == {
    <<"[", "a", "=", "b", "]">>,
    <<"[", "r", "o", "o", "t", "]">>,
    <<"a", " ", "b", "=", "a", "=", "b">>,
    <<" ", "[", "a", "]", " ">>,
    <<"[", "a", "]", "b">>
}

\* the parts of the state a component does not use
ReaderIdle ==
    /\ config = <<>>
    /\ section = InitialSection(0)
    /\ map = {}

DiffIdle ==
    /\ leftMap = {}
    /\ rightMap = {}
    /\ left = {}
    /\ right = {}
    /\ differences = <<>>

MainIdle ==
    /\ fs = <<>>
    /\ pc = "idle"
    /\ ignored = {}
    /\ tree = {}
    /\ file = <<>>
    /\ printed = <<>>
    /\ status = "idle"

InitRead ==
    /\ DiffIdle
    /\ MainIdle
    /\ config = <<>>
    /\ section = ReaderInit(0).section
    /\ map = ReaderInit(0).map
    /\ store = ReaderInit(0).store

\* for line in config { ... }: the next line is read and handled.
\* The files read: up to MaxLines lines of DocLines; within the first
\* MaxPrefix + 1 lines, the last line of a file may be any line.
ReadStep ==
    /\ Len(config) < MaxLines
    /\ \A i \in 1..Len(config) : config[i] \in DocLines
    /\ \E raw \in (IF Len(config) <= MaxPrefix
                   THEN DocLines \cup LongLines \cup AnyLines
                   ELSE DocLines) :
          LET st == ReadLine([section |-> section, map |-> map, store |-> store], raw)
          IN  /\ config' = Append(config, raw)
              /\ section' = st.section
              /\ map' = st.map
              /\ store' = st.store
    /\ UNCHANGED <<diffVars, mainVars>>

NextRead == ReadStep

SpecRead == InitRead /\ [][NextRead]_vars

---------------------------------------------------------------------------
(* diff *)

\* HashMap::remove(&key): the value of the entry with an equal key, if any,
\* and the map without it
Remove(m, k) ==
    LET hit == {e \in m : KeyEq(e.key, k)}
    IN  [found |-> hit # {},
         value |-> IF hit = {} THEN <<>> ELSE (CHOOSE e \in hit : TRUE).value,
         rest  |-> m \ hit]

\* a key missing on the right reported against an empty value
DiffEntryOneSided(e, r) ==
    LET other == Remove(r, e.key)
    IN  [yield |-> IF e.value # other.value
                   THEN <<[key |-> e.key, left |-> e.value, right |-> other.value]>>
                   ELSE <<>>,
         right |-> other.rest]

\* the closure of filter_map on one entry of the left map: what it yields
\* (nothing or one Difference) and the right map it leaves
DiffEntry(e, r) ==
    LET other == Remove(r, e.key)
    IN  IF ~other.found THEN [yield |-> <<>>, right |-> other.rest]
        ELSE [yield |-> IF e.value # other.value
                        THEN <<[key |-> e.key, left |-> e.value, right |-> other.value]>>
                        ELSE <<>>,
              right |-> other.rest]

\* the iterator of diff run to its end, as the set of what it yields
RECURSIVE DiffRun(_, _)
DiffRun(l, r) ==
    IF l = {} THEN {}
    ELSE LET e == CHOOSE x \in l : TRUE
             step == DiffEntry(e, r)
         IN  {step.yield[i] : i \in 1..Len(step.yield)}
                 \cup DiffRun(l \ {e}, step.right)

\* the lines of the files compared
DiffLines == {
    <<"[", "a", "]">>,
    <<"a", "=", "a">>,
    <<"a", "=", "b">>,
    <<"b", "=", "a">>
}

Files == UNION {[1..n -> DiffLines] : n \in 0..MaxFileLines}

\* read_to_map of every file, by the state of the arena it starts in
Reads == [st \in 0..(MaxFileLines + 1) |-> {read_to_map(f, st) : f \in Files}]

\* diff(left, right, store): both files read into maps, in the same arena
InitDiff ==
    \E l \in Reads[0] :
      \E r \in Reads[l.store] :
            /\ ReaderIdle
            /\ MainIdle
            /\ store = r.store
            /\ leftMap = l.map
            /\ rightMap = r.map
            /\ left = l.map
            /\ right = r.map
            /\ differences = <<>>

\* the iterator yields its next item: one entry of the left map, in the
\* order of the hash map, goes through the closure
DiffNext ==
    \E e \in left :
        LET step == DiffEntry(e, right)
        IN  /\ left' = left \ {e}
            /\ right' = step.right
            /\ differences' = differences \o step.yield
            /\ UNCHANGED <<leftMap, rightMap>>
            /\ UNCHANGED <<readerVars, mainVars>>

NextDiff == DiffNext

SpecDiff == InitDiff /\ [][NextDiff]_vars

---------------------------------------------------------------------------
(* main *)

\* the file names of the trees
FileNames == {
    [stem |-> "x", ext |-> "cfg"],
    [stem |-> "y", ext |-> "CFG"],
    [stem |-> "z", ext |-> "txt"]
}

NoFile == [stem |-> "", ext |-> ""]

\* the contents of the files of the trees
ContentA == << <<"a", "=", "a">>, <<"[", "a", "]">>, <<"b", "=", "a">> >>

ContentB == << <<"a", "=", "b">>, <<"[", "a", "]">>, <<"b", "=", "b">> >>

ContentC == << <<"a", "=", "a">>, <<"[", "a", "]">>, <<"b", "=", "b">> >>

Absent == [exists |-> FALSE, opens |-> FALSE, lines |-> <<>>]

Locked == [exists |-> TRUE, opens |-> FALSE, lines |-> <<>>]

Plain(lines) == [exists |-> TRUE, opens |-> TRUE, lines |-> lines]

\* a tree: a root that cannot be read holds nothing the run can see
Trees ==
    {[root |-> FALSE, files |-> [n \in FileNames |-> Absent]]}
    \cup {[root |-> TRUE, files |-> f] :
            f \in {g \in [FileNames -> {Absent, Locked, Plain(ContentA),
                                            Plain(ContentB), Plain(ContentC)}] :
                      g[[stem |-> "z", ext |-> "txt"]] \in {Absent, Plain(ContentA)}}}

\* --ignore: not given, given and unreadable, given with these lines
IgnoreFiles ==
    {[given |-> FALSE, reads |-> FALSE, lines |-> <<>>],
     [given |-> TRUE, reads |-> FALSE, lines |-> <<>>]}
    \cup {[given |-> TRUE, reads |-> TRUE, lines |-> l] :
            l \in {<<>>, << <<"a">> >>, << <<"b">> >>, << Root, <<"a", "b">> >>}}

\* Ignored::initialize: every line of the file joins the set
initialize(set, lines) == set \cup {lines[i] : i \in 1..Len(lines)}

\* only the property looked up
is_ignoredPropertyOnly(set, key) ==
    IF set = {} THEN FALSE ELSE key.property \in set

\* Ignored::is_ignored
is_ignored(set, key) ==
    IF set = {} THEN FALSE
    ELSE key.section.name \in set \/ key.property \in set

\* WalkDir::new(root).into_iter(): a root that cannot be read yields one Err
WalkDir(t) ==
    IF ~t.root THEN {[ok |-> FALSE, path |-> NoFile]}
    ELSE {[ok |-> TRUE, path |-> n] : n \in {m \in FileNames : t.files[m].exists}}

\* read_tree: the Err entries are dropped, the .cfg and .CFG files kept
read_tree(t) ==
    {x.path : x \in {e \in WalkDir(t) : e.ok /\ e.path.ext \in {"cfg", "CFG"}}}

\* read_common_tree: the file names found in both trees
read_common_tree(l, r) == {n \in read_tree(l) : n \in read_tree(r)}

\* a file that cannot be opened read as an empty file
diff_pathsLenient(l, r, st) ==
    LET lm == read_to_map(l.lines, st)
        rm == read_to_map(r.lines, lm.store)
    IN  [ok |-> TRUE, differences |-> DiffRun(lm.map, rm.map), store |-> rm.store]

\* diff_paths: File::open of the left file, then of the right file, then diff
diff_paths(l, r, st) ==
    IF ~l.opens \/ ~r.opens
    THEN [ok |-> FALSE, differences |-> {}, store |-> st]
    ELSE LET lm == read_to_map(l.lines, st)
             rm == read_to_map(r.lines, lm.store)
         IN  [ok |-> TRUE, differences |-> DiffRun(lm.map, rm.map), store |-> rm.store]

InitMain ==
    /\ ReaderIdle
    /\ DiffIdle
    /\ store = 0
    /\ fs \in [left : Trees, right : Trees, ignore : IgnoreFiles]
    /\ pc = "ignore"
    /\ ignored = {}
    /\ tree = {}
    /\ file = NoFile
    /\ printed = <<>>
    /\ status = "running"

\* if let Some(path) = opts.ignore: the file is read, or main returns the error
LoadIgnore ==
    /\ pc = "ignore"
    /\ IF fs.ignore.given /\ ~fs.ignore.reads
       THEN /\ pc' = "exit"
            /\ status' = "err"
            /\ UNCHANGED ignored
       ELSE /\ pc' = "tree"
            /\ ignored' = IF fs.ignore.given
                          THEN initialize(ignored, fs.ignore.lines) ELSE ignored
            /\ UNCHANGED status
    /\ UNCHANGED <<fs, tree, file, printed, store>>
    /\ UNCHANGED <<config, section, map, diffVars>>

\* let tree = read_common_tree(..); let store = Bump::new()
ReadCommonTree ==
    /\ pc = "tree"
    /\ tree' = read_common_tree(fs.left, fs.right)
    /\ pc' = "loop"
    /\ UNCHANGED <<fs, ignored, file, printed, status, store>>
    /\ UNCHANGED <<config, section, map, diffVars>>

\* one iteration of for (file, (left, right)) in tree
ComparePair ==
    /\ pc = "loop"
    /\ \E n \in tree :
          LET res == diff_paths(fs.left.files[n], fs.right.files[n], store)
              kept == {d \in res.differences : ~is_ignored(ignored, d.key)}
          IN  /\ file' = n
              /\ tree' = tree \ {n}
              /\ store' = res.store
              /\ IF ~res.ok
                 THEN /\ pc' = "exit"
                      /\ status' = "err"
                      /\ UNCHANGED printed
                 ELSE /\ printed' =
                            IF kept # {}
                            THEN Append(printed, [file |-> n,
                                                  count |-> Cardinality(kept),
                                                  differences |-> kept])
                            ELSE printed
                      /\ UNCHANGED <<pc, status>>
    /\ UNCHANGED <<fs, ignored>>
    /\ UNCHANGED <<config, section, map, diffVars>>

\* the iterator is exhausted: Ok(())
Return ==
    /\ pc = "loop"
    /\ tree = {}
    /\ pc' = "exit"
    /\ status' = "ok"
    /\ UNCHANGED <<fs, ignored, tree, file, printed, store>>
    /\ UNCHANGED <<config, section, map, diffVars>>

NextMain == LoadIgnore \/ ReadCommonTree \/ ComparePair \/ Return

SpecMain == InitMain /\ [][NextMain]_vars

---------------------------------------------------------------------------
(* The reader's lines, as the specification words them *)

Last(s) == s[Len(s)]

Chars(s) == {s[i] : i \in 1..Len(s)}

\* the text before the first c of s, all of s when it holds none
BeforeFirst(s, c) ==
    IF c \notin Chars(s) THEN s
    ELSE SubSeq(s, 1, (CHOOSE i \in 1..Len(s) :
                          s[i] = c /\ \A j \in 1..(i - 1) : s[j] # c) - 1)

\* the text strictly after the first c of s
AfterFirst(s, c) ==
    SubSeq(s, (CHOOSE i \in 1..Len(s) :
                  s[i] = c /\ \A j \in 1..(i - 1) : s[j] # c) + 1, Len(s))

\* a raw line after comment stripping and trimming
Text(raw) == trim(BeforeFirst(raw, ";"))

Bracketed(t) == Len(t) >= 2 /\ t[1] = "[" /\ t[Len(t)] = "]"

\* the text strictly between the first '[' and the last ']'
Between(t) ==
    SubSeq(t, Min({i \in 1..Len(t) : t[i] = "["}) + 1,
              Max({i \in 1..Len(t) : t[i] = "]"}) - 1)

HeaderLine(raw) == Bracketed(Text(raw))

PairLine(raw) == ~Bracketed(Text(raw)) /\ "=" \in Chars(Text(raw))

PairProperty(raw) == trim(BeforeFirst(Text(raw), "="))

\* the value as the specification words it: the text strictly after the '='
PairValueAfter(raw) == trim(AfterFirst(Text(raw), "="))

\* the value as read_to_map extracts it from the line
PairValueRead(raw) == Value(Stripped(raw))

\* empty, whitespace-only, comment-only or unrecognized
NoEffectLine(raw) ==
    \/ raw = <<>>
    \/ \A i \in 1..Len(raw) : raw[i] = " "
    \/ \E i \in 1..Len(raw) : raw[i] = ";" /\ \A j \in 1..(i - 1) : raw[j] = " "
    \/ ~Bracketed(Text(raw)) /\ "=" \notin Chars(Text(raw))

\* the name of the section current when line i of the lines is read
SectionNameAt(lines, i) ==
    LET heads == {j \in 1..(i - 1) : HeaderLine(lines[j])}
    IN  IF heads = {} THEN Root ELSE Between(Text(lines[Max(heads)]))

\* the pair lines of the lines read under section name s with property p
Writes(lines, s, p) ==
    {i \in 1..Len(lines) :
        /\ PairLine(lines[i])
        /\ PairProperty(lines[i]) = p
        /\ SectionNameAt(lines, i) = s}

---------------------------------------------------------------------------
(* Claims on read_to_map, under SpecRead *)

\* C1: a pair line stores, under the current section, the trimmed text
\* before the first '=' as the property and the trimmed text strictly after
\* the first '=' as the value (the empty string when nothing follows).
C1_ValueAfterEquals ==
    (config # <<>> /\ PairLine(Last(config))) =>
        \E e \in map :
            /\ e.key.section.name = section.name
            /\ e.key.property = PairProperty(Last(config))
            /\ e.value = PairValueAfter(Last(config))

\* C3: the value stored for (s, p) is the value of the last pair line with
\* property p read while the current section was named s, also when s was
\* closed and reopened; no two entries share a section name and a property.
C3_LastWriteWins ==
    /\ \A e \in map :
          LET w == Writes(config, e.key.section.name, e.key.property)
          IN  w # {} /\ e.value = PairValueRead(config[Max(w)])
    /\ \A i \in {j \in 1..Len(config) : PairLine(config[j])} :
          \E e \in map :
              /\ e.key.property = PairProperty(config[i])
              /\ e.key.section.name = SectionNameAt(config, i)
    /\ \A e1, e2 \in map :
          (e1.key.section.name = e2.key.section.name
              /\ e1.key.property = e2.key.property) => e1 = e2

\* a section closed, reopened, and a property of it written before and after
C3_Witness ==
    \E i, j, k, l \in 1..Len(config) :
        /\ i < j /\ j < k /\ k < l
        /\ PairLine(config[i]) /\ PairLine(config[l])
        /\ HeaderLine(config[j]) /\ HeaderLine(config[k])
        /\ SectionNameAt(config, i) = SectionNameAt(config, l)
        /\ SectionNameAt(config, k) # SectionNameAt(config, i)
        /\ PairProperty(config[i]) = PairProperty(config[l])
        /\ PairValueRead(config[i]) # PairValueRead(config[l])
        /\ Cardinality(map) = 1

\* C4: the current section starts as "root": a pair line read before the
\* first header is stored under "root", one read after a header under the
\* name of the most recent header.
C4_RootThenLatestHeader ==
    /\ section.name = SectionNameAt(config, Len(config) + 1)
    /\ \A i \in {j \in 1..Len(config) : PairLine(config[j])} :
          \E e \in map :
              /\ e.key.property = PairProperty(config[i])
              /\ e.key.section.name =
                    (IF \E j \in 1..(i - 1) : HeaderLine(config[j])
                     THEN SectionNameAt(config, i) ELSE Root)

\* a pair stored under "root" and, after a header, one under the header
C4_Witness ==
    /\ Len(config) = 3
    /\ PairLine(config[1]) /\ HeaderLine(config[2]) /\ PairLine(config[3])
    /\ \E e \in map : e.key.section.name = Root
    /\ \E e \in map : e.key.section.name = Between(Text(config[2]))
    /\ Between(Text(config[2])) # Root

\* C6: a bracket-shaped line is a section header even when it holds '=':
\* the current section becomes the text between the first '[' and the last
\* ']' and nothing is inserted into the map.
C6_HeaderBeforePair ==
    [][(config' # config /\ HeaderLine(Last(config'))) =>
          /\ section'.name = Between(Text(Last(config')))
          /\ map' = map]_vars

\* "[a=b]" read with an entry in the map: the section is "a=b"
C6_Witness ==
    /\ config # <<>>
    /\ Last(config) = <<"[", "a", "=", "b", "]">>
    /\ section.name = <<"a", "=", "b">>
    /\ map # {}
    /\ \A e \in map : e.key.section.name # section.name

\* C9: an empty, whitespace-only, comment-only or unrecognized line leaves
\* the map and the current section as they were, and the line is consumed.
C9_NoEffectLines ==
    [][(config' # config /\ NoEffectLine(Last(config'))) =>
          /\ map' = map
          /\ section' = section
          /\ Len(config') = Len(config) + 1]_vars

\* an unrecognized line read under a section other than "root", the map filled
C9_Witness ==
    /\ config # <<>>
    /\ Text(Last(config)) # <<>>
    /\ ~HeaderLine(Last(config)) /\ ~PairLine(Last(config))
    /\ section.name # Root
    /\ map # {}

---------------------------------------------------------------------------
(* Claims on diff, under SpecDiff *)

SameKey(k1, k2) ==
    k1.section.name = k2.section.name /\ k1.property = k2.property

\* the pairs of entries of the two maps under one key with two values
Drift(L, R) ==
    {p \in L \X R : SameKey(p[1].key, p[2].key) /\ p[1].value # p[2].value}

DiffDone == left = {}

\* C2: diff yields exactly one Difference for each key present in both maps
\* with different values, carrying both values, and nothing else: no key
\* present in one map only, no key with equal values.
C2_ExactlyTheDrift ==
    /\ \A i \in 1..Len(differences) :
          \E p \in Drift(leftMap, rightMap) :
              /\ SameKey(differences[i].key, p[1].key)
              /\ differences[i].left = p[1].value
              /\ differences[i].right = p[2].value
    /\ \A i, j \in 1..Len(differences) :
          SameKey(differences[i].key, differences[j].key) => i = j
    /\ DiffDone =>
          \A p \in Drift(leftMap, rightMap) :
              \E i \in 1..Len(differences) : SameKey(differences[i].key, p[1].key)

\* a run that reported a drifted key and passed over a key of the left map
\* only, a key of the right map only
C2_Witness ==
    /\ DiffDone
    /\ Len(differences) = 1
    /\ \E e \in leftMap : \A o \in rightMap : ~SameKey(e.key, o.key)
    /\ \E o \in rightMap : \A e \in leftMap : ~SameKey(e.key, o.key)

\* C10: diff(R, L) reports the keys diff(L, R) reports, each once, with the
\* left and right values exchanged; diff(M, M) is empty.
C10_SwapSymmetric ==
    DiffDone =>
        LET back == DiffRun(rightMap, leftMap)
        IN  /\ \A i \in 1..Len(differences) :
                  \E d \in back :
                      /\ SameKey(d.key, differences[i].key)
                      /\ d.left = differences[i].right
                      /\ d.right = differences[i].left
            /\ \A d \in back :
                  \E i \in 1..Len(differences) : SameKey(d.key, differences[i].key)
            /\ Cardinality(back) = Len(differences)
            /\ ({<<e.key.section.name, e.key.property, e.value>> : e \in leftMap}
                  = {<<e.key.section.name, e.key.property, e.value>> : e \in rightMap})
                  => differences = <<>>

\* a difference reported from a left map of one key, the right map holding
\* a key the left map lacks, which the iteration over the left never visits
C10_Witness ==
    /\ DiffDone
    /\ Len(differences) = 1
    /\ Cardinality(leftMap) = 1
    /\ \E o \in rightMap : \A e \in leftMap : ~SameKey(e.key, o.key)

---------------------------------------------------------------------------
(* Claims on main, under SpecMain *)

\* the strings of the ignore file the run was given
IgnoreList ==
    IF fs.ignore.given /\ fs.ignore.reads
    THEN {fs.ignore.lines[i] : i \in 1..Len(fs.ignore.lines)} ELSE {}

\* a key is ignored iff a string of the list equals its property or its section
Suppressed(key) ==
    \E t \in IgnoreList : t = key.property \/ t = key.section.name

\* a Difference without the addresses of its key
Flat(d) == <<d.key.section.name, d.key.property, d.left, d.right>>

\* the drift between the two files named n, each read on its own
FileDrift(n) ==
    {<<p[1].key.section.name, p[1].key.property, p[1].value, p[2].value>> :
        p \in Drift(read_to_map(fs.left.files[n].lines, 0).map,
                    read_to_map(fs.right.files[n].lines, 0).map)}

Surviving(n) ==
    {d \in FileDrift(n) :
        ~\E t \in IgnoreList : t = d[2] \/ t = d[1]}

\* the ignore file, if one was given, has been read
IgnoreLoaded ==
    pc \in {"tree", "loop", "exit"} /\ ~(fs.ignore.given /\ ~fs.ignore.reads)

\* the pairs compared so far without failure
Compared ==
    IF IgnoreLoaded /\ pc \in {"loop", "exit"}
    THEN {n \in read_common_tree(fs.left, fs.right) \ tree :
             ~(status = "err" /\ n = file)}
    ELSE {}

PrintedFiles == {printed[i].file : i \in 1..Len(printed)}

\* C5: is_ignored is true iff the ignore set holds the key's property or its
\* section name, false for every key when the set is empty; what is printed
\* for a pair is exactly the differences whose key is not ignored, with their
\* number, and nothing is printed for a pair with none left.
C5_IgnoreFilter ==
    /\ IgnoreLoaded =>
          \A n \in FileNames : \A e \in read_to_map(fs.left.files[n].lines, 0).map :
              is_ignored(ignored, e.key) <=> Suppressed(e.key)
    /\ \A i \in 1..Len(printed) :
          /\ printed[i].file \in Compared
          /\ {Flat(d) : d \in printed[i].differences} = Surviving(printed[i].file)
          /\ printed[i].count = Cardinality(Surviving(printed[i].file))
          /\ printed[i].count > 0
    /\ \A i, j \in 1..Len(printed) : printed[i].file = printed[j].file => i = j
    /\ \A n \in Compared : Surviving(n) # {} => n \in PrintedFiles

\* a pair printed with one of its two differences ignored, and a pair whose
\* differences are all ignored, not printed
C5_Witness ==
    /\ pc = "exit" /\ status = "ok"
    /\ ignored # {}
    /\ \E i \in 1..Len(printed) :
          /\ printed[i].count = 1
          /\ Cardinality(FileDrift(printed[i].file)) = 2
    /\ \E n \in Compared : FileDrift(n) # {} /\ Surviving(n) = {}

\* C7: a tree root that cannot be read is fatal: the run ends with an error,
\* not successfully with an empty set of pairs.
C7_UnreadableRootFatal ==
    (pc = "exit" /\ (~fs.left.root \/ ~fs.right.root)) => status = "err"

OpenFails(n) == ~fs.left.files[n].opens \/ ~fs.right.files[n].opens

\* C8: when a file of a pair fails to open the run aborts there with an
\* error: the failing pair and the pairs after it print nothing, and the run
\* has reported differences for none of the pairs.
C8_NoPartialResults ==
    (file # NoFile /\ OpenFails(file)) =>
        /\ pc = "exit" /\ status = "err"
        /\ file \notin PrintedFiles
        /\ \A n \in tree : n \notin PrintedFiles
        /\ printed = <<>>

\* C8, amended: when a file of a pair fails to open the run aborts there
\* with an error: the failing pair and the pairs after it are never compared
\* or printed; what the pairs before it printed stays printed.
C8_AbortsAtFailingPair ==
    (file # NoFile /\ OpenFails(file)) =>
        /\ pc = "exit" /\ status = "err"
        /\ ~ENABLED NextMain
        /\ file \notin PrintedFiles
        /\ \A n \in tree : n \notin PrintedFiles
        /\ \A n \in PrintedFiles : n \in Compared /\ ~OpenFails(n)

\* the second pair failed to open after the first was printed
C8_Witness ==
    /\ file # NoFile /\ OpenFails(file)
    /\ status = "err"
    /\ Len(printed) = 1
    /\ printed[1].file # file

===========================================================================
